---- MODULE Spec2Model ----
(***************************************************************************)
(* A model of lil, a URL shortener with OAuth login (kriive/lil).          *)
(*                                                                         *)
(*   - the relational store (users, auths, shorts) with the constraints    *)
(*     of sqlite/migration/000000000.sql;                                  *)
(*   - AuthService.CreateAuth, the identity linker, both as one atomic     *)
(*     call (used by the HTTP handlers) and as a transaction taken step    *)
(*     by step by concurrent processes;                                    *)
(*   - the session cookie and the OAuth handlers of http/auth.go;          *)
(*   - the short-link handlers of http/short.go over sqlite's ShortService.*)
(***************************************************************************)
EXTENDS Integers, Sequences, FiniteSets, TLC

VARIABLES
    users,       \* rows of table users: [id, name, email]
    auths,       \* rows of table auths: [userID, source, sourceID, accessToken, refreshToken, expiry]
    nextUserID,  \* users.id AUTOINCREMENT: the id the next inserted user gets
    shorts,      \* rows of table shorts in rowid (insertion) order
    cookie,      \* the session cookie each client holds, as encoded on the wire
    nonceCtr,    \* number of OAuth states minted so far
    flash,       \* the flash cookie each client holds
    resp,        \* the last HTTP request handled and its response
    tx,          \* the CreateAuth transaction of each process
    lock         \* the process holding the store's write lock, or NoProc

vars == <<users, auths, nextUserID, shorts, cookie, flash, nonceCtr, resp, tx, lock>>

storeVars == <<users, auths, nextUserID>>
txVars    == <<tx, lock>>

-----------------------------------------------------------------------------
(* Bounds of the model *)

\* OAuth states one behaviour may mint.
MaxNonce == 2

\* CreateAuth transactions one behaviour may start.
MaxTx == 3

-----------------------------------------------------------------------------
(* Data *)

AuthSourceGitHub == "github"
AuthSourceGoogle == "google"
Sources == {AuthSourceGitHub, AuthSourceGoogle}

\* A nil pointer of the provider's profile (u.Name, u.Login, u.Email, u.ID).
Nil == "nil"

\* Error codes of the lil package.
ECONFLICT       == "conflict"
EINTERNAL       == "internal"
EINVALID        == "invalid"
ENOTFOUND       == "not_found"
ENOTIMPLEMENTED == "not_implemented"
EUNAUTHORIZED   == "unauthorized"
OK              == "ok"

Clients == {"c1"}

\* Tokens a provider's exchange returns: access token, refresh token, expiry
\* ("" is the zero time).
Tokens == { [access |-> "a1", refresh |-> "r1", expiry |-> ""],
            [access |-> "a2", refresh |-> "r2", expiry |-> "e2"] }

GitHubIDs == {1, 2}
GoogleIDs == {"2"}
Names     == {"A"}
Logins    == {"A"}
Emails    == {"a@x"}

\* Paths of the protected routes (registerShortPrivateRoutes).
ProtectedPaths == {"/short", "/short/new"}

\* The zero value Session{}.
EmptySession == [UserID |-> 0, RedirectURL |-> "", State |-> ""]

\* The cookie's name, and the keys of the secure cookie: the server's
\* HashKey and BlockKey, and a key of a client's own making.
SessionCookieName == "session"
HashKey  == "hk"
BlockKey == "bk"
OtherKey == "xk"

\* securecookie.JSONEncoder: the session as the JSON object of its fields
\* userID, redirectURL, state, and back.
JSONSerialize(session) == <<session.UserID, session.RedirectURL, session.State>>

DeserializeWithoutState(b) == [UserID |-> b[1], RedirectURL |-> b[2], State |-> ""]

JSONDeserialize(b) == [UserID |-> b[1], RedirectURL |-> b[2], State |-> b[3]]

\* The cipher text of data under block key k, and the tag of hash key k over
\* the cookie's name and value.
Encrypt(k, data) == [blockKey |-> k, data |-> data]
MAC(k, name, value) == [hashKey |-> k, name |-> name, value |-> value]

\* Whether the tag of a cookie is the server's tag over its name and value.
SkipVerifyMAC(name, tok) == TRUE

VerifyMAC(name, tok) == tok.mac = MAC(HashKey, name, tok.value)

\* MarshalSession: s.sc.Encode(SessionCookieName, session).
MarshalSession(session) ==
    LET value == Encrypt(BlockKey, JSONSerialize(session))
    IN  [value |-> value, mac |-> MAC(HashKey, SessionCookieName, value)]

\* UnmarshalSession: s.sc.Decode(SessionCookieName, data, &session). The
\* tag is verified first, then the value is decrypted and deserialized; an
\* error of securecookie carries no lil code.
UnmarshalSession(tok) ==
    IF ~VerifyMAC(SessionCookieName, tok) THEN [err |-> EINTERNAL, session |-> EmptySession]
    ELSE IF tok.value.blockKey # BlockKey \/ Len(tok.value.data) # 3
      THEN [err |-> EINTERNAL, session |-> EmptySession]
    ELSE [err |-> OK, session |-> JSONDeserialize(tok.value.data)]

\* A request without a session cookie.
NoSessionCookie ==
    [value |-> Encrypt("", <<>>), mac |-> MAC("", "", Encrypt("", <<>>))]

\* Server.session on a request with cookie tok: the empty session when there
\* is no cookie; the empty session and the error when it does not decode.
ServerSession(tok) ==
    IF tok = NoSessionCookie THEN [err |-> OK, session |-> EmptySession]
    ELSE UnmarshalSession(tok)

\* The session a handler that ignores the error goes on with.
SessionIn(tok) == ServerSession(tok).session

\* Cookies a client can make without the server: one sealed with its own
\* keys that names user 1, and one the server issued with the user id in
\* its value changed.
TamperedCookie(tok) ==
    [tok EXCEPT !.value.data = IF Len(@) = 3 THEN <<(@[1] % 2) + 1, @[2], @[3]>> ELSE <<1, "", "">>]

ForgedCookie ==
    LET value == Encrypt(OtherKey, JSONSerialize([EmptySession EXCEPT !.UserID = 1]))
    IN  [value |-> value, mac |-> MAC(OtherKey, SessionCookieName, value)]

\* The n-th state minted: hex of 64 random bytes, never minted twice.
Nonce(n) == "n" \o ToString(n)

\* Every value a request's "state" form value takes in the model.
RequestStates == {""} \cup {Nonce(n) : n \in 1..MaxNonce}

-----------------------------------------------------------------------------
(* The store: constraints of the schema *)

\* users.email UNIQUE (an empty email is stored as NULL and never collides).
UsersEmailUnique(U, u) ==
    u.email = "" \/ \A v \in U : v.email # u.email

\* auths: UNIQUE(user_id, source) -- one source per user.
DropUniqueUserSource(A, a) == TRUE

AuthsUniqueUserSource(A, a) ==
    \A b \in A : ~(b.userID = a.userID /\ b.source = a.source)

\* auths: UNIQUE(source, source_id) -- one auth per source user.
DropUniqueSourceID(A, a) == TRUE

AuthsUniqueSourceID(A, a) ==
    \A b \in A : ~(b.source = a.source /\ b.sourceID = a.sourceID)

\* auths.user_id INTEGER NOT NULL REFERENCES users (id).
DropForeignKey(U, a) == TRUE

AuthsUserForeignKey(U, a) ==
    \E u \in U : u.id = a.userID

\* auths.user_id ... ON DELETE CASCADE: the auths left when user id goes.
NoCascadeAuths(A, id) == A

CascadeAuths(A, id) == {a \in A : a.userID # id}

\* shorts.owner_id ... ON DELETE CASCADE: the shorts left when user id goes.
NoCascadeShorts(S, id) == S

CascadeShorts(S, id) == SelectSeq(S, LAMBDA r : r.ownerID # id)

\* User.Validate
UserValidate(u) == IF u.name = "" THEN EINVALID ELSE OK

-----------------------------------------------------------------------------
(* AuthService.CreateAuth *)

FindAuthBySourceID(A, source, sourceID) ==
    {a \in A : a.source = source /\ a.sourceID = sourceID}

\* The first user with that email ("first match wins"): the lowest id.
FindUserByEmail(U, email) ==
    LET M == {u \in U : u.email = email}
    IN  {u \in M : \A v \in M : u.id <= v.id}

\* What CreateAuth decides after its lookups.
\*   update: the auth exists, refresh its tokens;
\*   link:   a user with the email exists, give it a new auth;
\*   create: insert a new user, then its auth.
PlanOf(U, A, auth) ==
    LET found  == FindAuthBySourceID(A, auth.source, auth.sourceID)
        byMail == FindUserByEmail(U, auth.email)
    IN  IF found # {}
          THEN [kind |-> "update", userID |-> (CHOOSE a \in found : TRUE).userID]
        ELSE IF auth.email # "" /\ byMail # {}
          THEN [kind |-> "link", userID |-> (CHOOSE u \in byMail : TRUE).id]
        ELSE [kind |-> "create", userID |-> 0]

NewUserRow(id, auth) == [id |-> id, name |-> auth.name, email |-> auth.email]

NewAuthRow(userID, auth) ==
    [userID |-> userID, source |-> auth.source, sourceID |-> auth.sourceID,
     accessToken |-> auth.accessToken, refreshToken |-> auth.refreshToken,
     expiry |-> auth.expiry]

\* createUser: validation, then the INSERT under the schema's constraints.
CreateUserCheck(U, id, auth) ==
    IF UserValidate(NewUserRow(id, auth)) # OK THEN EINVALID
    ELSE IF ~UsersEmailUnique(U, NewUserRow(id, auth)) THEN ECONFLICT
    ELSE OK

\* createAuth: validation, then the INSERT under the schema's constraints.
CreateAuthCheck(U, A, userID, auth) ==
    LET row == NewAuthRow(userID, auth)
    IN  IF auth.sourceID = "" THEN EINVALID
        ELSE IF ~AuthsUserForeignKey(U, row) THEN EINTERNAL
        ELSE IF ~AuthsUniqueSourceID(A, row) THEN ECONFLICT
        ELSE IF ~AuthsUniqueUserSource(A, row) THEN ECONFLICT
        ELSE OK

\* updateAuth: the tokens and expiry of the auth found, in place.
UpdateAuthRows(A, auth) ==
    {IF a.source = auth.source /\ a.sourceID = auth.sourceID
       THEN [a EXCEPT !.accessToken = auth.accessToken,
                      !.refreshToken = auth.refreshToken,
                      !.expiry = auth.expiry]
       ELSE a : a \in A}

\* CreateAuth as one transaction that nothing interleaves with: the error
\* code, the tables after it (unchanged unless it commits) and auth.UserID.
CreateAuth(U, A, nid, auth) ==
    LET plan    == PlanOf(U, A, auth)
        failed(e) == [err |-> e, users |-> U, auths |-> A, nextUserID |-> nid, userID |-> 0]
    IN  IF plan.kind = "update" THEN
            [err |-> OK, users |-> U, auths |-> UpdateAuthRows(A, auth),
             nextUserID |-> nid, userID |-> plan.userID]
        ELSE IF plan.kind = "link" THEN
            LET e == CreateAuthCheck(U, A, plan.userID, auth)
            IN  IF e # OK THEN failed(e)
                ELSE [err |-> OK, users |-> U,
                      auths |-> A \cup {NewAuthRow(plan.userID, auth)},
                      nextUserID |-> nid, userID |-> plan.userID]
        ELSE
            LET eu == CreateUserCheck(U, nid, auth)
                U2 == U \cup {NewUserRow(nid, auth)}
                ea == CreateAuthCheck(U2, A, nid, auth)
            IN  IF eu # OK THEN failed(eu)
                ELSE IF ea # OK THEN failed(ea)
                ELSE [err |-> OK, users |-> U2,
                      auths |-> A \cup {NewAuthRow(nid, auth)},
                      nextUserID |-> nid + 1, userID |-> nid]

-----------------------------------------------------------------------------
(* HTTP: errors *)

\* ErrorStatusCode: the codes table, 500 for a code it does not hold.
StatusAlwaysInternal(code) == 500

ErrorStatusCode(code) ==
    CASE code = ECONFLICT       -> 409
      [] code = EINVALID        -> 400
      [] code = ENOTFOUND       -> 404
      [] code = ENOTIMPLEMENTED -> 501
      [] code = EUNAUTHORIZED   -> 401
      [] code = EINTERNAL       -> 500
      [] OTHER                  -> 500

\* lil.ErrorCode of an error built by fmt.Errorf("...: %s", err): the cause is
\* formatted into the text, so the error is no *lil.Error and has the
\* internal code.
FmtErrorfCode(cause) == EINTERNAL

-----------------------------------------------------------------------------
(* HTTP: the OAuth handlers *)

\* The profiles the provider returns with an id: Users.Get of GitHub (ID,
\* Name, Login, Email are pointers), Userinfo of Google (strings).
GitHubProfiles ==
    [id : GitHubIDs, name : Names \cup {Nil}, login : Logins \cup {Nil},
     email : Emails \cup {Nil}]

GoogleProfiles ==
    [id : GoogleIDs, name : Names \cup {""}, email : Emails \cup {""}]

\* strconv.FormatInt(i, 10)
FormatInt(i) == ToString(i)

\* What the log of a request keeps of the lil.Auth handed to CreateAuth;
\* NoAuth when the handler returned before it built one.
AuthKey(auth) == [source |-> auth.source, sourceID |-> auth.sourceID, email |-> auth.email]
NoAuth == [source |-> "", sourceID |-> "", email |-> ""]

\* The zero lil.Auth: what a handler has of it before it builds one.
ZeroAuth ==
    [source |-> "", sourceID |-> "", accessToken |-> "", refreshToken |-> "",
     expiry |-> "", name |-> "", email |-> ""]

\* The name and email handleOAuthGitHubCallback takes from the profile.
GitHubName(u) == IF u.name # Nil THEN u.name ELSE IF u.login # Nil THEN u.login ELSE ""
GitHubEmail(u) == IF u.email # Nil THEN u.email ELSE ""

\* The lil.Auth handleOAuthGitHubCallback builds.
GitHubAuthAsGoogle(tok, u) ==
    [source |-> AuthSourceGoogle, sourceID |-> FormatInt(u.id),
     accessToken |-> tok.access, refreshToken |-> tok.refresh, expiry |-> tok.expiry,
     name |-> GitHubName(u), email |-> GitHubEmail(u)]

GitHubAuth(tok, u) ==
    [source |-> AuthSourceGitHub, sourceID |-> FormatInt(u.id),
     accessToken |-> tok.access, refreshToken |-> tok.refresh, expiry |-> tok.expiry,
     name |-> GitHubName(u), email |-> GitHubEmail(u)]

\* The lil.Auth handleOAuthGoogleCallback builds: its Source is
\* lil.AuthSourceGitHub.
GoogleAuth(tok, c) ==
    [source |-> AuthSourceGitHub, sourceID |-> c.id,
     accessToken |-> tok.access, refreshToken |-> tok.refresh, expiry |-> tok.expiry,
     name |-> c.name, email |-> c.email]

\* "if state != session.State": whether the callback goes on.
StateAlwaysMatches(state, session) == TRUE

StateMatches(state, session) == state = session.State

\* The session a callback stores once CreateAuth has succeeded.
SessionKeepingUser(session, userID) ==
    [UserID |-> session.UserID, RedirectURL |-> "", State |-> ""]

SessionKeepingState(session, userID) ==
    [UserID |-> userID, RedirectURL |-> session.RedirectURL, State |-> session.State]

SessionAfterLogin(session, userID) ==
    [UserID |-> userID, RedirectURL |-> "", State |-> ""]

\* Where a callback redirects once logged in.
RedirectAlwaysHome(redirectURL) == "/"

RedirectAfterLogin(redirectURL) == IF redirectURL = "" THEN "/" ELSE redirectURL

\* The user the authenticate middleware puts in the request's context: the
\* session's user when FindUserByID finds it, none (0) otherwise.
SessionUserID(c) == SessionIn(cookie[c]).UserID

ContextUserID(c) ==
    IF SessionIn(cookie[c]).UserID # 0 /\ \E u \in users : u.id = SessionIn(cookie[c]).UserID
      THEN SessionIn(cookie[c]).UserID ELSE 0

\* requireAuth: the next handler runs when the context holds a user.
NoRequireAuth(userID) == TRUE

RequireAuthPasses(userID) == userID # 0

\* A client without a flash cookie.
NoCookie == "<none>"

\* loadFlash: the value of a flash cookie that is present goes into the
\* request's context (FlashFromContext is "" without one), and the cookie
\* is set to "".
ContextFlash(c) == IF flash[c] = NoCookie THEN "" ELSE flash[c]

KeepFlash(c) == flash

LoadFlash(c) == [flash EXCEPT ![c] = IF flash[c] = NoCookie THEN NoCookie ELSE ""]

\* SetFlash, after loadFlash has run.
SetFlash(c, msg) == [flash EXCEPT ![c] = msg]

\* The zero lil.User and lil.Short (Owner nil), and the zero ShortFilter.
NoUser == [id |-> 0, name |-> "", email |-> ""]
NoShort ==
    [key |-> "", url |-> [scheme |-> "", host |-> ""], ownerID |-> 0,
     createdAt |-> 0, updatedAt |-> 0, owner |-> NoUser]
NoFilter == [key |-> Nil, url |-> Nil, offset |-> 0, limit |-> 0]

NoRequest ==
    [handler |-> "none", provider |-> "", client |-> "", state |-> "", key |-> "",
     url |-> "", caller |-> 0, attempts |-> 0, err |-> "", msg |-> "",
     exchanged |-> FALSE, fetched |-> FALSE, linked |-> FALSE,
     auth |-> NoAuth, plan |-> "", linkErr |-> "", status |-> 0, location |-> "",
     short |-> NoShort, filter |-> NoFilter, list |-> <<>>, n |-> 0,
     length |-> 0, alphabet |-> <<>>, runes |-> <<>>, out |-> <<>>,
     conv |-> "", logged |-> FALSE, body |-> [key |-> "", ownerID |-> 0],
     readErr |-> "", flash |-> ""]

\* setSession: the cookie of the response replaces the client's.
SetSession(c, session) == [cookie EXCEPT ![c] = MarshalSession(session)]

\* The session a login initiation stores: the request's session with the
\* new state.
SessionWithStateOnly(session, state) == [EmptySession EXCEPT !.State = state]

SessionWithState(session, state) == [session EXCEPT !.State = state]

\* handleOAuthGitHub / handleOAuthGoogle
OAuthStart(c, provider) ==
    LET s   == ServerSession(cookie[c])
        req == [NoRequest EXCEPT !.handler = "oauth", !.provider = provider, !.client = c,
                                 !.flash = ContextFlash(c),
                                 !.caller = ContextUserID(c)]
    IN  /\ flash' = LoadFlash(c)
        /\ UNCHANGED <<storeVars, shorts, txVars>>
        /\ IF s.err # OK
             THEN /\ resp' = [req EXCEPT !.err = s.err, !.status = ErrorStatusCode(s.err)]
                  /\ UNCHANGED <<cookie, nonceCtr>>
             ELSE /\ nonceCtr < MaxNonce
                  /\ nonceCtr' = nonceCtr + 1
                  /\ cookie' = SetSession(c, SessionWithState(s.session, Nonce(nonceCtr + 1)))
                  /\ resp' = [req EXCEPT !.state = Nonce(nonceCtr + 1),
                                         !.status = 302, !.location = provider]

\* The session a logout stores.
SessionWithoutUser(session) == [session EXCEPT !.UserID = 0]

SessionAfterLogout(session) == EmptySession

\* handleLogout
Logout(c) ==
    /\ cookie' = SetSession(c, SessionAfterLogout(SessionIn(cookie[c])))
    /\ resp' = [NoRequest EXCEPT !.handler = "logout", !.client = c,
                                 !.flash = ContextFlash(c),
                                 !.caller = ContextUserID(c),
                                 !.status = 302, !.location = "/"]
    /\ flash' = LoadFlash(c)
    /\ UNCHANGED <<storeVars, shorts, nonceCtr, txVars>>

\* URLs of requests to the protected routes: r.URL has a path and a query,
\* and a scheme and a host when the request line carries an absolute URI.
RequestURLs ==
    {[scheme |-> "", host |-> "", path |-> "/short/new", query |-> ""],
     [scheme |-> "http", host |-> "h", path |-> "/short", query |-> "offset=1"]}

\* url.URL.String()
RequestURLString(u) ==
    (IF u.scheme = "" THEN "" ELSE u.scheme \o ":")
    \o (IF u.host = "" THEN "" ELSE "//" \o u.host)
    \o u.path
    \o (IF u.query = "" THEN "" ELSE "?" \o u.query)

\* The request's path and query alone.
PathAndQuery(u) == RequestURLString([u EXCEPT !.scheme = "", !.host = ""])

\* The URL requireAuth saves: the request's, scheme and host cleared.
WholeURL(u) == RequestURLString(u)

SavedRedirectURL(u) == RequestURLString([u EXCEPT !.scheme = "", !.host = ""])

\* requireAuth, for a request without an authenticated user.
RequireAuthRedirect(c, url) ==
    /\ ~RequireAuthPasses(ContextUserID(c))
    /\ cookie' = SetSession(c, [SessionIn(cookie[c]) EXCEPT !.RedirectURL = SavedRedirectURL(url)])
    /\ resp' = [NoRequest EXCEPT !.handler = "requireAuth", !.client = c,
                                 !.flash = ContextFlash(c),
                                 !.url = PathAndQuery(url),
                                 !.status = 302, !.location = "/login"]
    /\ flash' = LoadFlash(c)
    /\ UNCHANGED <<storeVars, shorts, nonceCtr, txVars>>

\* The cookie is one MarshalSession made.
IssuedByServer(tok) == tok.mac = MAC(HashKey, SessionCookieName, tok.value)

\* The client replaces its session cookie by one of its own making (forged
\* with its own keys, or the one the server issued with its value changed),
\* or drops it.
ClientSetsCookie(c, make) ==
    LET tok == CASE make = "forge"  -> ForgedCookie
                 [] make = "tamper" -> TamperedCookie(cookie[c])
                 [] OTHER           -> NoSessionCookie
    IN
    /\ make = "tamper" => IssuedByServer(cookie[c])
    /\ tok # cookie[c]
    /\ cookie' = [cookie EXCEPT ![c] = tok]
    /\ resp' = [NoRequest EXCEPT !.handler = "client", !.client = c]
    /\ UNCHANGED <<storeVars, shorts, flash, nonceCtr, txVars>>

\* Exchange returns a token unless the exchange fails; Users.Get (for Google
\* the userinfo request) returns a profile with an id only when both succeed.
ExchangeSucceeds(conv) == conv # "exchange"

FetchIgnored(conv) == TRUE

FetchSucceeds(conv) == conv = "ok"

\* A callback, from the session and the state check on. The provider's part of the exchange
\* is conv: the token exchange fails ("exchange"), the profile fetch fails or
\* brings no id ("profile"), or both succeed ("ok") and the handler builds
\* auth from them.
Callback(c, provider, state, conv, auth) ==
    LET s       == ServerSession(cookie[c])
        session == s.session
        req     == [NoRequest EXCEPT !.handler = "callback", !.provider = provider,
                                     !.client = c,
                                 !.flash = ContextFlash(c), !.state = state]
        failed(r) ==
            /\ resp' = [r EXCEPT !.status = ErrorStatusCode(FmtErrorfCode(r.linkErr))]
            /\ UNCHANGED <<storeVars, cookie>>
        res     == CreateAuth(users, auths, nextUserID, auth)
        plan    == PlanOf(users, auths, auth).kind
    IN  /\ flash' = LoadFlash(c)
        /\ UNCHANGED <<shorts, nonceCtr, txVars>>
        /\ IF s.err # OK THEN failed([req EXCEPT !.err = s.err])
           ELSE IF ~StateMatches(state, session) THEN failed(req)
           ELSE IF ~ExchangeSucceeds(conv)
             THEN failed([req EXCEPT !.conv = conv, !.exchanged = TRUE])
           ELSE IF ~FetchSucceeds(conv)
             THEN failed([req EXCEPT !.conv = conv, !.exchanged = TRUE, !.fetched = TRUE])
           ELSE IF res.err # OK
             THEN failed([req EXCEPT !.conv = conv,
                                     !.exchanged = TRUE, !.fetched = TRUE, !.linked = TRUE,
                                     !.auth = AuthKey(auth), !.plan = plan, !.linkErr = res.err])
           ELSE /\ users' = res.users
                /\ auths' = res.auths
                /\ nextUserID' = res.nextUserID
                /\ cookie' = SetSession(c, SessionAfterLogin(session, res.userID))
                /\ resp' = [req EXCEPT !.conv = conv,
                                       !.exchanged = TRUE, !.fetched = TRUE, !.linked = TRUE,
                                       !.auth = AuthKey(auth), !.plan = plan, !.linkErr = OK,
                                       !.status = 302,
                                       !.location = RedirectAfterLogin(session.RedirectURL)]

\* The request passes the checks made before the provider is called.
ReachesExchange(c, state) ==
    /\ ServerSession(cookie[c]).err = OK
    /\ StateMatches(state, SessionIn(cookie[c]))

\* handleOAuthGitHubCallback: the session or the state check fails, Exchange
\* fails, or Users.Get fails or brings no id; or the handler reaches
\* CreateAuth with the token and the profile it got.
GitHubCallbackFails(c, state, conv) ==
    Callback(c, AuthSourceGitHub, state, conv, ZeroAuth)

GitHubCallback(c, state, tok, u) ==
    /\ ReachesExchange(c, state)
    /\ Callback(c, AuthSourceGitHub, state, "ok", GitHubAuth(tok, u))

\* handleOAuthGoogleCallback, likewise.
GoogleCallbackFails(c, state, conv) ==
    Callback(c, AuthSourceGoogle, state, conv, ZeroAuth)

GoogleCallback(c, state, tok, g) ==
    /\ ReachesExchange(c, state)
    /\ Callback(c, AuthSourceGoogle, state, "ok", GoogleAuth(tok, g))

-----------------------------------------------------------------------------
(* Short links: lil.Short, sqlite.ShortService, the handlers of http/short.go *)

\* Keys SecureStringFromAlphabet may draw; target URLs a request may carry.
Keys == {"k1", "k2"}
EmptyURL == [scheme |-> "", host |-> ""]
URLs == {[scheme |-> "https", host |-> "a"], [scheme |-> "http", host |-> "b"],
         [scheme |-> "ftp", host |-> "x"], EmptyURL}

\* Values of tx.now, the time a transaction begins: of the calls made to
\* the service directly, and of the requests.
Times == {1, 2}
RequestTimes == {1}

\* url.URL.String()
URLString(u) == IF u = EmptyURL THEN "" ELSE u.scheme \o "://" \o u.host

\* Short.Validate
ValidateKeyAndOwner(short) ==
    IF short.key = "" THEN EINVALID
    ELSE IF short.ownerID = 0 THEN EINVALID
    ELSE OK

ShortValidate(short) ==
    IF URLString(short.url) = "" THEN EINVALID
    ELSE IF short.url.scheme # "https" /\ short.url.scheme # "http" THEN EINVALID
    ELSE IF short.key = "" THEN EINVALID
    ELSE IF short.ownerID = 0 THEN EINVALID
    ELSE OK

\* CanEditShort: only the short's owner can delete it. Nothing calls it.
CanEditShort(short, userID) == short.ownerID = userID

\* shorts.key TEXT PRIMARY KEY
DropKeyUnique(S, key) == TRUE

ShortsKeyUnique(S, key) == \A i \in 1..Len(S) : S[i].key # key

\* shorts.owner_id INTEGER NOT NULL REFERENCES users (id)
DropOwnerForeignKey(U, short) == TRUE

ShortsOwnerForeignKey(U, short) == \E u \in U : u.id = short.ownerID

\* DBUrl: the url column holds url.String(), a scan parses the text again.
DBUrlValue(u) == URLString(u)
DBUrlScan(raw) ==
    IF \E u \in URLs : URLString(u) = raw
      THEN CHOOSE u \in URLs : URLString(u) = raw
      ELSE EmptyURL

\* NullTime: the time columns hold the time as RFC 3339 text.
NullTimeValue(t) == <<"rfc3339", t>>
NullTimeScan(raw) == raw[2]

\* The row createShort inserts for a short, and the short findShorts scans
\* from a row.
InsertRow(short) ==
    [key |-> short.key, url |-> DBUrlValue(short.url), ownerID |-> short.ownerID,
     createdAt |-> NullTimeValue(short.createdAt),
     updatedAt |-> NullTimeValue(short.updatedAt)]

ScanShort(r) ==
    [key |-> r.key, url |-> DBUrlScan(r.url), ownerID |-> r.ownerID,
     createdAt |-> NullTimeScan(r.createdAt), updatedAt |-> NullTimeScan(r.updatedAt)]

\* findShorts with filter.Key set: the shorts with that key, in rowid order.
FindShortsByKey(S, key) ==
    LET rows == SelectSeq(S, LAMBDA r : r.key = key)
    IN  [i \in 1..Len(rows) |-> ScanShort(rows[i])]

\* findShortByKey
FindShortByKey(S, key) ==
    IF FindShortsByKey(S, key) = <<>>
      THEN [err |-> ENOTFOUND,
            short |-> [key |-> "", url |-> EmptyURL, ownerID |-> 0,
                       createdAt |-> 0, updatedAt |-> 0]]
      ELSE [err |-> OK, short |-> FindShortsByKey(S, key)[1]]

\* createShort: the user of the request's context is the owner, and there
\* must be one.
AnyOwner(userID) == OK

OwnerFromContext(userID) == IF userID = 0 THEN EUNAUTHORIZED ELSE OK

\* FormatError: the message that goes with the error of a failed insert.
ErrorMessage(code) ==
    IF code = ECONFLICT THEN "Short with the same key already exists." ELSE ""

\* findUserByID: the users row with this id.
FindUserByID(U, id) ==
    IF \E u \in U : u.id = id
      THEN [err |-> OK, user |-> CHOOSE u \in U : u.id = id]
      ELSE [err |-> ENOTFOUND, user |-> NoUser]

\* attachShortAssociations: short.Owner is the user short.OwnerID names.
AttachNoOwner(U, short) ==
    [err |-> OK,
     short |-> [key |-> short.key, url |-> short.url, ownerID |-> short.ownerID,
                createdAt |-> short.createdAt, updatedAt |-> short.updatedAt,
                owner |-> NoUser]]

AttachShortAssociations(U, short) ==
    [err |-> FindUserByID(U, short.ownerID).err,
     short |-> [key |-> short.key, url |-> short.url, ownerID |-> short.ownerID,
                createdAt |-> short.createdAt, updatedAt |-> short.updatedAt,
                owner |-> FindUserByID(U, short.ownerID).user]]

\* ShortService.CreateShort of a short with this url and key, for the user
\* of the request's context, in a transaction begun at now: the error code,
\* its message, the table after it and the short as the caller holds it
\* then (owner id and times filled in, the owner attached). readErr is how
\* the read of the owner's row inside attachShortAssociations ends: OK, or
\* the error of a read that fails; CreateShort tests the error of
\* createShort a second time in its place and goes on to commit.
CreateShortWith(S, U, userID, url, key, now, readErr) ==
    LET short == [key |-> key, url |-> url, ownerID |-> userID,
                  createdAt |-> now, updatedAt |-> now]
        fail(code) == [err |-> code, msg |-> ErrorMessage(code), shorts |-> S,
                       short |-> NoShort]
        attached == IF readErr # OK
                      THEN [err |-> readErr,
                            short |-> [AttachShortAssociations(U, short).short
                                         EXCEPT !.owner = NoUser]]
                      ELSE AttachShortAssociations(U, short)
    IN  IF OwnerFromContext(userID) # OK THEN fail(OwnerFromContext(userID))
        ELSE IF ShortValidate(short) # OK THEN fail(ShortValidate(short))
        ELSE IF ~ShortsKeyUnique(S, key) THEN fail(ECONFLICT)
        ELSE IF ~ShortsOwnerForeignKey(U, short) THEN fail(EINTERNAL)
        ELSE [err |-> OK, msg |-> "", shorts |-> Append(S, InsertRow(short)),
              short |-> attached.short]

CreateShort(S, U, userID, url, key, now) ==
    CreateShortWith(S, U, userID, url, key, now, OK)

\* ShortService.DeleteShort: ENOTFOUND for a key not stored, else the row
\* is deleted, whoever the user of the request's context is.
DeleteShortKeepingRow(S, userID, key) ==
    [err |-> FindShortByKey(S, key).err, shorts |-> S]

DeleteShort(S, userID, key) ==
    IF FindShortByKey(S, key).err # OK
      THEN [err |-> FindShortByKey(S, key).err, shorts |-> S]
      ELSE [err |-> OK, shorts |-> SelectSeq(S, LAMBDA r : r.key # key)]

\* url.ParseRequestURI of the form value "url".
ParseRequestURI(raw) == IF raw = EmptyURL THEN EINVALID ELSE OK

\* The key of the short handed to CreateShort: the one the generator drew
\* overwrites the one decoded from the body.
VanityKey(bodyKey, key) == IF bodyKey # "" THEN bodyKey ELSE key

GeneratedKey(bodyKey, key) == key

\* handleShortURLNew behind requireAuth ("GET /short/new"): the form.
ShortURLNew(c) ==
    /\ RequireAuthPasses(ContextUserID(c))
    /\ flash' = LoadFlash(c)
    /\ resp' = [NoRequest EXCEPT !.handler = "new", !.client = c,
                                 !.flash = ContextFlash(c),
                                 !.caller = ContextUserID(c), !.status = 200]
    /\ UNCHANGED <<storeVars, shorts, cookie, nonceCtr, txVars>>

\* handleShortURLCreate behind requireAuth ("POST /short/new"); accept is
\* the Accept header, url the target and body the key and owner id the
\* client sent with it (OwnerID is json:"-" and a form has the url alone),
\* key the one key SecureStringFromAlphabet draws, now the time of the
\* CreateShort transaction.
ShortURLCreate(c, accept, url, body, key, now) ==
    LET req == [NoRequest EXCEPT !.handler = "create", !.client = c,
                                 !.flash = ContextFlash(c),
                                 !.key = key, !.body = body,
                                 !.caller = ContextUserID(c)]
        res == CreateShort(shorts, users, ContextUserID(c), url,
                           GeneratedKey(IF accept = "application/json" THEN body.key ELSE "",
                                        key),
                           now)
    IN  /\ RequireAuthPasses(ContextUserID(c))
        /\ flash' = LoadFlash(c)
        /\ UNCHANGED <<storeVars, cookie, nonceCtr, txVars>>
        /\ IF accept # "application/json" /\ ParseRequestURI(url) # OK
             THEN /\ resp' = [req EXCEPT !.err = EINVALID, !.status = ErrorStatusCode(EINVALID)]
                  /\ UNCHANGED shorts
             ELSE /\ shorts' = res.shorts
                  /\ resp' = [req EXCEPT !.attempts = 1, !.err = res.err, !.msg = res.msg,
                                         !.status = IF res.err = OK THEN 200
                                                    ELSE ErrorStatusCode(res.err)]

\* handleShortURLDelete behind requireAuth ("DELETE /s/{key}").
ShortURLDelete(c, key) ==
    LET req == [NoRequest EXCEPT !.handler = "delete", !.client = c,
                                 !.flash = ContextFlash(c), !.key = key,
                                 !.caller = ContextUserID(c)]
        res == DeleteShort(shorts, ContextUserID(c), key)
    IN  /\ RequireAuthPasses(ContextUserID(c))
        /\ UNCHANGED <<storeVars, cookie, nonceCtr, txVars>>
        /\ shorts' = res.shorts
        /\ IF res.err # OK
             THEN /\ flash' = LoadFlash(c)
                  /\ resp' = [req EXCEPT !.err = res.err, !.status = ErrorStatusCode(res.err)]
             ELSE /\ flash' = SetFlash(c, "Successfully deleted short " \o key \o ".")
                  /\ resp' = [req EXCEPT !.err = OK, !.status = 302, !.location = "/short"]

\* handleShortenedURL ("/s/{key}", any method but the DELETE above).
ShortenedURL(c, key) ==
    LET req == [NoRequest EXCEPT !.handler = "resolve", !.client = c,
                                 !.flash = ContextFlash(c), !.key = key,
                                 !.caller = ContextUserID(c)]
        res == FindShortByKey(shorts, key)
    IN  /\ flash' = LoadFlash(c)
        /\ UNCHANGED <<storeVars, shorts, cookie, nonceCtr, txVars>>
        /\ resp' = IF res.err # OK
                     THEN [req EXCEPT !.err = res.err, !.status = ErrorStatusCode(res.err)]
                     ELSE [req EXCEPT !.err = OK, !.status = 301,
                                      !.location = URLString(res.short.url)]

Init ==
    /\ users = {}
    /\ auths = {}
    /\ nextUserID = 1
    /\ shorts = <<>>
    /\ cookie = [c \in Clients |-> NoSessionCookie]
    /\ flash = [c \in Clients |-> NoCookie]
    /\ nonceCtr = 0
    /\ resp = NoRequest
    /\ tx = <<>>
    /\ lock = 0

Next ==
    \/ \E c \in Clients, p \in Sources : OAuthStart(c, p)
    \/ \E c \in Clients : Logout(c)
    \/ \E c \in Clients, url \in RequestURLs : RequireAuthRedirect(c, url)
    \/ \E c \in Clients, st \in RequestStates, conv \in {"exchange", "profile"} :
          GitHubCallbackFails(c, st, conv)
    \/ \E c \in Clients, st \in RequestStates, tok \in Tokens, u \in GitHubProfiles :
          GitHubCallback(c, st, tok, u)
    \/ \E c \in Clients, st \in RequestStates, conv \in {"exchange", "profile"} :
          GoogleCallbackFails(c, st, conv)
    \/ \E c \in Clients, st \in RequestStates, tok \in Tokens, g \in GoogleProfiles :
          GoogleCallback(c, st, tok, g)

Spec == Init /\ [][Next]_vars

\* AuthService.CreateAuth called with an auth, as a callback calls it.
CreateAuthCall(auth) ==
    LET res == CreateAuth(users, auths, nextUserID, auth)
    IN  /\ users' = res.users
        /\ auths' = res.auths
        /\ nextUserID' = res.nextUserID
        /\ resp' = [NoRequest EXCEPT !.handler = "CreateAuth", !.linked = TRUE,
                                     !.auth = AuthKey(auth), !.caller = res.userID,
                                     !.plan = PlanOf(users, auths, auth).kind,
                                     !.linkErr = res.err]
        /\ UNCHANGED <<shorts, cookie, flash, nonceCtr, txVars>>

\* Auths handed to CreateAuth: of an account with a subject id, and without
\* one, with and without an email.
SubjectAuths ==
    {[source |-> AuthSourceGitHub, sourceID |-> id, accessToken |-> "a1",
      refreshToken |-> "r1", expiry |-> "", name |-> "A", email |-> e] :
        id \in {"", "1"}, e \in Emails \cup {""}}

NextSubject ==
    \/ \E c \in Clients, p \in Sources : OAuthStart(c, p)
    \/ \E c \in Clients, st \in RequestStates, conv \in {"exchange", "profile"} :
          GitHubCallbackFails(c, st, conv)
    \/ \E c \in Clients, st \in RequestStates, tok \in Tokens, u \in GitHubProfiles :
          GitHubCallback(c, st, tok, u)
    \/ \E c \in Clients, st \in RequestStates, conv \in {"exchange", "profile"} :
          GoogleCallbackFails(c, st, conv)
    \/ \E c \in Clients, st \in RequestStates, tok \in Tokens, g \in GoogleProfiles :
          GoogleCallback(c, st, tok, g)
    \/ \E auth \in SubjectAuths : CreateAuthCall(auth)

\* The callbacks, and CreateAuth called with and without a subject id.
SpecSubject == Init /\ [][NextSubject]_vars

\* The session handlers with a client that also presents cookies the server
\* never issued.
NextToken ==
    \/ \E c \in Clients, p \in Sources : OAuthStart(c, p)
    \/ \E c \in Clients : Logout(c)
    \/ \E c \in Clients, url \in RequestURLs : RequireAuthRedirect(c, url)
    \/ \E c \in Clients, st \in RequestStates, conv \in {"exchange", "profile"} :
          GitHubCallbackFails(c, st, conv)
    \/ \E c \in Clients, st \in RequestStates, tok \in Tokens, u \in GitHubProfiles :
          GitHubCallback(c, st, tok, u)
    \/ \E c \in Clients, make \in {"forge", "tamper", "drop"} : ClientSetsCookie(c, make)

SpecToken == Init /\ [][NextToken]_vars

\* The short-link service in use: two users have logged in with GitHub
\* (accounts 1 and 2, no public email), client c1 holds the session of the
\* first, c2 of the second, c0 none.
ShortClients == {"c0", "c1", "c2"}

InitShort ==
    /\ users = {[id |-> 1, name |-> "A", email |-> ""], [id |-> 2, name |-> "A", email |-> ""]}
    /\ auths = {NewAuthRow(u, GitHubAuth([access |-> "a1", refresh |-> "r1", expiry |-> ""],
                              [id |-> u, name |-> "A", login |-> "A", email |-> Nil])) : u \in {1, 2}}
    /\ nextUserID = 3
    /\ shorts = <<>>
    /\ cookie = [c \in ShortClients |->
                   CASE c = "c1" -> MarshalSession([EmptySession EXCEPT !.UserID = 1])
                     [] c = "c2" -> MarshalSession([EmptySession EXCEPT !.UserID = 2])
                     [] OTHER -> NoSessionCookie]
    /\ flash = [c \in ShortClients |-> NoCookie]
    /\ nonceCtr = 0
    /\ resp = NoRequest
    /\ tx = <<>>
    /\ lock = 0

NextShort ==
    \/ \E c \in ShortClients, url \in RequestURLs : RequireAuthRedirect(c, url)
    \/ \E c \in ShortClients, accept \in {"application/json", ""}, url \in URLs, key \in Keys,
          now \in RequestTimes :
          ShortURLCreate(c, accept, url, NoRequest.body, key, now)
    \/ \E c \in ShortClients, key \in Keys : ShortURLDelete(c, key)
    \/ \E c \in ShortClients, key \in Keys : ShortenedURL(c, key)

SpecShort == InitShort /\ [][NextShort]_vars

\* ShortService called directly, as its tests do, with a context that holds
\* user userID or none (0).
CreateShortCall(userID, url, key, now) ==
    LET res == CreateShort(shorts, users, userID, url, key, now)
    IN  /\ shorts' = res.shorts
        /\ resp' = [NoRequest EXCEPT !.handler = "CreateShort", !.caller = userID,
                                     !.key = key, !.url = URLString(url),
                                     !.err = res.err, !.msg = res.msg,
                                     !.short = res.short]
        /\ UNCHANGED <<storeVars, cookie, flash, nonceCtr, txVars>>

\* The same call while the read of the owner's row may fail.
CreateShortFaultCall(userID, url, key, now, readErr) ==
    LET res == CreateShortWith(shorts, users, userID, url, key, now, readErr)
    IN  /\ shorts' = res.shorts
        /\ resp' = [NoRequest EXCEPT !.handler = "CreateShort", !.caller = userID,
                                     !.key = key, !.url = URLString(url),
                                     !.err = res.err, !.msg = res.msg,
                                     !.short = res.short, !.readErr = readErr]
        /\ UNCHANGED <<storeVars, cookie, flash, nonceCtr, txVars>>

DeleteShortCall(userID, key) ==
    LET res == DeleteShort(shorts, userID, key)
    IN  /\ shorts' = res.shorts
        /\ resp' = [NoRequest EXCEPT !.handler = "DeleteShort", !.caller = userID,
                                     !.key = key, !.err = res.err]
        /\ UNCHANGED <<storeVars, cookie, flash, nonceCtr, txVars>>

NextShortService ==
    \/ \E userID \in 0..2, url \in URLs, key \in Keys \cup {""}, now \in Times :
          CreateShortCall(userID, url, key, now)
    \/ \E userID \in 0..2, key \in Keys : DeleteShortCall(userID, key)

SpecShortService == InitShort /\ [][NextShortService]_vars

NextShortFaults ==
    \/ \E userID \in 0..2, url \in URLs, key \in Keys, now \in Times,
          readErr \in {OK, EINTERNAL} :
          CreateShortFaultCall(userID, url, key, now, readErr)
    \/ \E userID \in 0..2, key \in Keys : DeleteShortCall(userID, key)

\* ShortService called directly while reads of the users table may fail.
SpecShortFaults == InitShort /\ [][NextShortFaults]_vars

-----------------------------------------------------------------------------
(* CreateAuth as a transaction, step by step, among concurrent callers *)

\* The store serialises writers: a transaction takes the write lock with its
\* first write and holds it until it commits or rolls back. Its writes stay
\* in the transaction (newUser, wrote) and reach the tables with the commit;
\* readers see the committed tables only.
Procs == {1, 2}

\* The lil.Auth values the callers hand to CreateAuth.
TxAuths ==
    {[source |-> k[1], sourceID |-> k[2], accessToken |-> "a1", refreshToken |-> "r1",
      expiry |-> "", name |-> "A", email |-> e] :
        k \in {<<AuthSourceGitHub, "1">>, <<AuthSourceGitHub, "2">>, <<AuthSourceGoogle, "1">>},
        e \in Emails}
    \cup {[source |-> AuthSourceGitHub, sourceID |-> "1", accessToken |-> "a1",
           refreshToken |-> "r1", expiry |-> "", name |-> "A", email |-> ""],
          [source |-> AuthSourceGitHub, sourceID |-> "", accessToken |-> "a1",
           refreshToken |-> "r1", expiry |-> "", name |-> "A", email |-> ""],
          [source |-> AuthSourceGitHub, sourceID |-> "1", accessToken |-> "a2",
           refreshToken |-> "r2", expiry |-> "e2", name |-> "", email |-> ""]}

TxIdle ==
    [pc |-> "idle", auth |-> CHOOSE a \in TxAuths : TRUE, plan |-> "", userID |-> 0,
     newUser |-> FALSE, status |-> "", conc |-> FALSE, prev |-> "", n |-> 0]

TxStarted == tx[1].n + tx[2].n

HTTPUnchanged == UNCHANGED <<cookie, flash, nonceCtr, resp>>

InProgress(p) == tx[p].pc \in {"find", "user", "auth", "commit"}

SameAccount(a, b) == a.source = b.source /\ a.sourceID = b.sourceID

\* The users the transaction of p sees: the table and its own insert.
TxUsers(p) ==
    IF tx[p].newUser THEN users \cup {NewUserRow(tx[p].userID, tx[p].auth)} ELSE users

\* The transaction of p ends with error e: tx.Rollback() drops its writes.
TxFail(p, e) ==
    /\ tx' = [tx EXCEPT ![p].pc = "done", ![p].status = e]
    /\ lock' = IF lock = p THEN 0 ELSE lock
    /\ UNCHANGED <<storeVars, shorts>>
    /\ HTTPUnchanged

\* CreateAuth is called: BeginTx.
TxBegin(p, a) ==
    /\ tx[p].pc \in {"idle", "done"}
    /\ TxStarted < MaxTx
    /\ tx' = [q \in Procs |->
                IF q = p
                  THEN [pc |-> "find", auth |-> a, plan |-> "", userID |-> 0,
                        newUser |-> FALSE, status |-> "",
                        conc |-> \E r \in Procs \ {p} : InProgress(r),
                        prev |-> IF tx[p].pc = "done" /\ SameAccount(tx[p].auth, a)
                                   THEN tx[p].status ELSE "",
                        n |-> tx[p].n + 1]
                  ELSE IF InProgress(q) THEN [tx[q] EXCEPT !.conc = TRUE] ELSE tx[q]]
    /\ UNCHANGED <<storeVars, shorts, lock>>
    /\ HTTPUnchanged

\* findAuthBySourceID, then findUserByEmail.
TxFind(p) ==
    /\ tx[p].pc = "find"
    /\ LET plan == PlanOf(users, auths, tx[p].auth)
       IN  tx' = [tx EXCEPT ![p].plan = plan.kind, ![p].userID = plan.userID,
                            ![p].pc = IF plan.kind = "create" THEN "user" ELSE "auth"]
    /\ UNCHANGED <<storeVars, shorts, lock>>
    /\ HTTPUnchanged

\* createUser
TxCreateUser(p) ==
    /\ tx[p].pc = "user"
    /\ lock \in {0, p}
    /\ LET e == CreateUserCheck(users, nextUserID, tx[p].auth)
       IN  IF e # OK THEN TxFail(p, e)
           ELSE /\ tx' = [tx EXCEPT ![p].newUser = TRUE, ![p].userID = nextUserID,
                                    ![p].pc = "auth"]
                /\ lock' = p
                /\ UNCHANGED <<storeVars, shorts>>
                /\ HTTPUnchanged

\* updateAuth of the auth found, or createAuth.
TxWriteAuth(p) ==
    /\ tx[p].pc = "auth"
    /\ lock \in {0, p}
    /\ LET a == tx[p].auth
           e == IF tx[p].plan = "update"
                  THEN IF FindAuthBySourceID(auths, a.source, a.sourceID) = {}
                         THEN ENOTFOUND ELSE OK
                  ELSE CreateAuthCheck(TxUsers(p), auths, tx[p].userID, a)
       IN  IF e # OK THEN TxFail(p, e)
           ELSE /\ tx' = [tx EXCEPT ![p].pc = "commit"]
                /\ lock' = p
                /\ UNCHANGED <<storeVars, shorts>>
                /\ HTTPUnchanged

\* tx.Commit()
TxCommit(p) ==
    /\ tx[p].pc = "commit"
    /\ lock = p
    /\ users' = TxUsers(p)
    /\ nextUserID' = IF tx[p].newUser THEN nextUserID + 1 ELSE nextUserID
    /\ auths' = IF tx[p].plan = "update"
                  THEN UpdateAuthRows(auths, tx[p].auth)
                  ELSE auths \cup {NewAuthRow(tx[p].userID, tx[p].auth)}
    /\ tx' = [tx EXCEPT ![p].pc = "done", ![p].status = OK]
    /\ lock' = 0
    /\ UNCHANGED shorts
    /\ HTTPUnchanged

\* The request's context is cancelled before the commit.
TxCancel(p) ==
    /\ InProgress(p)
    /\ TxFail(p, EINTERNAL)

\* UserService.DeleteUser called by user id itself (another caller is
\* refused): the user's auths and shorts go with the user.
DeleteUser(id) ==
    /\ lock = 0
    /\ \E u \in users : u.id = id
    /\ users' = {u \in users : u.id # id}
    /\ auths' = CascadeAuths(auths, id)
    /\ shorts' = CascadeShorts(shorts, id)
    /\ UNCHANGED <<nextUserID, txVars>>
    /\ HTTPUnchanged

InitResolve ==
    /\ users = {}
    /\ auths = {}
    /\ nextUserID = 1
    /\ shorts = <<>>
    /\ cookie = [c \in Clients |-> NoSessionCookie]
    /\ flash = [c \in Clients |-> NoCookie]
    /\ nonceCtr = 0
    /\ resp = NoRequest
    /\ tx = [p \in Procs |-> TxIdle]
    /\ lock = 0

NextResolve ==
    \/ \E p \in Procs, a \in TxAuths : TxBegin(p, a)
    \/ \E p \in Procs : TxFind(p)
    \/ \E p \in Procs : TxCreateUser(p)
    \/ \E p \in Procs : TxWriteAuth(p)
    \/ \E p \in Procs : TxCommit(p)
    \/ \E p \in Procs : TxCancel(p)

\* Concurrent CreateAuth calls.
SpecResolve == InitResolve /\ [][NextResolve]_vars

NextStore ==
    \/ \E p \in Procs, a \in TxAuths : TxBegin(p, a)
    \/ \E p \in Procs : TxFind(p)
    \/ \E p \in Procs : TxCreateUser(p)
    \/ \E p \in Procs : TxWriteAuth(p)
    \/ \E p \in Procs : TxCommit(p)
    \/ \E p \in Procs : TxCancel(p)
    \/ \E id \in 1..MaxTx : DeleteUser(id)

\* Concurrent CreateAuth calls, and users being deleted meanwhile.
SpecStore == InitResolve /\ [][NextStore]_vars

-----------------------------------------------------------------------------
(* ShortService reads, and the users the shorts belong to *)

\* Largest offset and limit of the filters tried.
MaxOffset == 2
MaxLimit == 2

\* ShortFilter: Key and URL are set or nil.
ShortFilters ==
    [key : Keys \cup {Nil}, url : {"https://a", Nil},
     offset : 0..MaxOffset, limit : 0..MaxLimit]

\* The WHERE clause of findShorts: every part that is set must match.
Where(r, filter) ==
    /\ filter.key # Nil => r.key = filter.key
    /\ filter.url # Nil => r.url = filter.url

\* FormatLimitOffset: LIMIT and OFFSET apply when they are above zero.
FormatLimitOffset(rows, limit, offset) ==
    SubSeq(rows, offset + 1,
           IF limit > 0 /\ offset + limit < Len(rows) THEN offset + limit ELSE Len(rows))

\* findShorts: the shorts of the page, and n as scanned from the column
\* COUNT(*) OVER() of the rows of the page (n stays 0 when there is none).
\* The SELECT has no ORDER BY and shorts is a rowid table that no index
\* covers: the rows come from a scan of the table, in rowid order.
FindShortsReversed(S, filter) ==
    LET rev  == [i \in 1..Len(S) |-> S[Len(S) + 1 - i]]
        rows == SelectSeq(rev, LAMBDA r : Where(r, filter))
        page == FormatLimitOffset(rows, filter.limit, filter.offset)
    IN  [shorts |-> [i \in 1..Len(page) |-> ScanShort(page[i])],
         n |-> IF Len(page) = 0 THEN 0 ELSE Len(rows)]

FindShorts(S, filter) ==
    LET rows == SelectSeq(S, LAMBDA r : Where(r, filter))
        page == FormatLimitOffset(rows, filter.limit, filter.offset)
    IN  [shorts |-> [i \in 1..Len(page) |-> ScanShort(page[i])],
         n |-> IF Len(page) = 0 THEN 0 ELSE Len(rows)]

\* ShortService.FindShortByKey: the short with its owner attached.
ShortServiceFindShortByKey(S, U, key) ==
    IF FindShortByKey(S, key).err # OK
      THEN [err |-> FindShortByKey(S, key).err, short |-> NoShort]
    ELSE IF AttachShortAssociations(U, FindShortByKey(S, key).short).err # OK
      THEN [err |-> AttachShortAssociations(U, FindShortByKey(S, key).short).err,
            short |-> NoShort]
    ELSE AttachShortAssociations(U, FindShortByKey(S, key).short)

FindShortByKeyCall(key) ==
    LET res == ShortServiceFindShortByKey(shorts, users, key)
    IN  /\ resp' = [NoRequest EXCEPT !.handler = "FindShortByKey", !.key = key,
                                     !.err = res.err, !.short = res.short]
        /\ UNCHANGED <<storeVars, shorts, cookie, flash, nonceCtr, txVars>>

\* ShortService.FindShorts
FindShortsCall(filter) ==
    LET res == FindShorts(shorts, filter)
    IN  /\ resp' = [NoRequest EXCEPT !.handler = "FindShorts", !.filter = filter,
                                     !.err = OK, !.list = res.shorts, !.n = res.n]
        /\ UNCHANGED <<storeVars, shorts, cookie, flash, nonceCtr, txVars>>

\* handleShortsIndex behind requireAuth ("GET /short?offset="), without a
\* JSON filter: the limit is 20.
ShortsIndex(c, offset) ==
    LET filter == [NoFilter EXCEPT !.offset = offset, !.limit = 20]
        res == FindShorts(shorts, filter)
    IN  /\ RequireAuthPasses(ContextUserID(c))
        /\ flash' = LoadFlash(c)
        /\ resp' = [NoRequest EXCEPT !.handler = "index", !.client = c,
                                 !.flash = ContextFlash(c),
                                     !.caller = ContextUserID(c), !.filter = filter,
                                     !.err = OK, !.status = 200,
                                     !.list = res.shorts, !.n = res.n]
        /\ UNCHANGED <<storeVars, shorts, cookie, nonceCtr, txVars>>

NextShortStore ==
    \/ \E userID \in 0..2, url \in URLs, key \in Keys, now \in Times :
          CreateShortCall(userID, url, key, now)
    \/ \E userID \in 0..2, key \in Keys : DeleteShortCall(userID, key)
    \/ \E key \in Keys : FindShortByKeyCall(key)
    \/ \E id \in 1..2 : DeleteUser(id)

\* The ShortService and the users of InitShort: shorts are created, found
\* and deleted, and users are deleted with what they own.
SpecShortStore == InitShort /\ [][NextShortStore]_vars

NextShortList ==
    \/ \E userID \in 1..2, url \in URLs, key \in Keys, now \in RequestTimes :
          CreateShortCall(userID, url, key, now)
    \/ \E userID \in 1..2, key \in Keys : DeleteShortCall(userID, key)
    \/ \E filter \in ShortFilters : FindShortsCall(filter)
    \/ \E c \in ShortClients, offset \in 0..MaxOffset : ShortsIndex(c, offset)

\* The shorts of the users of InitShort being listed.
SpecShortList == InitShort /\ [][NextShortList]_vars

\* What a client may send as key and owner id with a create request.
RequestBodies == {NoRequest.body, [key |-> "vip", ownerID |-> 2]}

NextPrivate ==
    \/ \E c \in ShortClients, url \in RequestURLs : RequireAuthRedirect(c, url)
    \/ \E c \in ShortClients : ShortURLNew(c)
    \/ \E c \in ShortClients, accept \in {"application/json", ""},
          url \in {u \in URLs : u.scheme \in {"https", ""}}, body \in RequestBodies,
          key \in Keys, now \in RequestTimes :
          ShortURLCreate(c, accept, url, body, key, now)
    \/ \E c \in ShortClients : ShortURLDelete(c, "k1")
    \/ \E c \in ShortClients : ShortsIndex(c, 0)
    \/ DeleteUser(1)

\* The routes behind requireAuth, asked for by the clients of InitShort;
\* user 1 may be deleted meanwhile.
SpecPrivate == InitShort /\ [][NextPrivate]_vars

-----------------------------------------------------------------------------
(* generate.SecureStringFromAlphabet *)

\* The values of a byte of crypto/rand.
ByteRange == 256
Bytes == 0..(ByteRange - 1)

\* Largest key length tried with the short alphabets.
MaxKeyLength == 2

\* DefaultAlphabet as runes: a-z, A-Z, 0-9.
DefaultAlphabet ==
    [i \in 1..62 |-> IF i <= 26 THEN 96 + i
                     ELSE IF i <= 52 THEN 64 + (i - 26)
                     ELSE 47 + (i - 52)]

\* Alphabets a configuration may set: short ones, the default one, one of
\* 64 symbols (the default with - and _) and one with more symbols than a
\* byte has values.
ShortAlphabets == {<<97>>, <<97, 98>>, <<97, 98, 99>>}
Alphabet64 == DefaultAlphabet \o <<45, 95>>
WideAlphabet == [i \in 1..(ByteRange + 1) |-> 255 + i]
LongAlphabets == {DefaultAlphabet, Alphabet64, WideAlphabet}

\* The calls tried: every length up to MaxKeyLength with the short
\* alphabets, one symbol with the long ones.
KeyRequests ==
    {[length |-> n, alphabet |-> a] : n \in 1..MaxKeyLength, a \in ShortAlphabets}
      \cup {[length |-> 1, alphabet |-> a] : a \in LongAlphabets}

\* The rune the loop writes for byte b: arune[int(b) % len(arune)].
FirstRune(arune, b) == arune[1]

RuneAt(arune, b) == arune[(b % Len(arune)) + 1]

\* One turn of the loop over the random bytes: the bytes are independent
\* of each other, so each is drawn at the turn that reads it.
WriteRune(b) ==
    /\ resp.handler = "generate"
    /\ Len(resp.runes) < resp.length
    /\ resp' = [resp EXCEPT !.runes = Append(@, RuneAt(resp.alphabet, b))]
    /\ UNCHANGED <<storeVars, shorts, cookie, flash, nonceCtr, txVars>>

\* return out.String(), nil
ReturnString ==
    /\ resp.handler = "generate"
    /\ Len(resp.runes) = resp.length
    /\ resp' = [resp EXCEPT !.handler = "generated", !.out = resp.runes]
    /\ UNCHANGED <<storeVars, shorts, cookie, flash, nonceCtr, txVars>>

InitGenerate ==
    /\ users = {}
    /\ auths = {}
    /\ nextUserID = 1
    /\ shorts = <<>>
    /\ cookie = [c \in Clients |-> NoSessionCookie]
    /\ flash = [c \in Clients |-> NoCookie]
    /\ nonceCtr = 0
    /\ \E req \in KeyRequests :
          resp = [NoRequest EXCEPT !.handler = "generate", !.length = req.length,
                                  !.alphabet = req.alphabet]
    /\ tx = <<>>
    /\ lock = 0

NextGenerate ==
    \/ \E b \in Bytes : WriteRune(b)
    \/ ReturnString

\* SecureStringFromAlphabet called with a length and an alphabet.
SpecGenerate == InitGenerate /\ [][NextGenerate]_vars

-----------------------------------------------------------------------------
(* http.Error *)

\* Codes an error handed to Error may carry: those of the codes table and
\* one the table does not hold.
ErrorCodes ==
    {ECONFLICT, EINVALID, ENOTFOUND, ENOTIMPLEMENTED, EUNAUTHORIZED, EINTERNAL, "teapot"}

\* Messages of such errors, and paths of the requests they answer.
ErrorMessages == {"Short not found.", "Missing URL.", "oauth state mismatch"}
ErrorPaths == {"/short", "/short/new", "/s/k1", "/logout", "/oauth/github/callback"}

\* Error(w, r, err): the status is ErrorStatusCode of the error's code, the
\* body carries its message, and an internal error is logged.
HTTPError(path, code, message) ==
    /\ resp' = [NoRequest EXCEPT !.handler = "Error", !.url = path, !.err = code,
                                 !.msg = message, !.logged = (code = EINTERNAL),
                                 !.status = ErrorStatusCode(code)]
    /\ UNCHANGED <<storeVars, shorts, cookie, flash, nonceCtr, txVars>>

NextError ==
    \E path \in ErrorPaths, code \in ErrorCodes, message \in ErrorMessages :
       HTTPError(path, code, message)

\* Errors of every code being answered.
SpecError == Init /\ [][NextError]_vars

-----------------------------------------------------------------------------
(* Properties of the OAuth callbacks and of CreateAuth as they call it *)

\* A step is a callback that handed a lil.Auth to CreateAuth.
CallbackLinked == resp'.handler = "callback" /\ resp'.linked

\* An auth row without its tokens and expiry.
AuthIdentity(a) == [userID |-> a.userID, source |-> a.source, sourceID |-> a.sourceID]

\* C2: idempotent re-login. A callback whose lil.Auth names a (source,
\* sourceID) that already has an auth row succeeds, stores the owning user's
\* id in the session, inserts no user and no auth, and changes no row but
\* the tokens and expiry of that one.
C2_IdempotentRelogin ==
    [][CallbackLinked =>
        LET found == FindAuthBySourceID(auths, resp'.auth.source, resp'.auth.sourceID)
        IN  found # {} =>
              /\ resp'.linkErr = OK
              /\ \A a \in found : SessionIn(cookie'[resp'.client]).UserID = a.userID
              /\ users' = users
              /\ nextUserID' = nextUserID
              /\ Cardinality(auths') = Cardinality(auths)
              /\ {AuthIdentity(a) : a \in auths'} = {AuthIdentity(a) : a \in auths}
              /\ auths \ found \subseteq auths'
      ]_vars

\* A second login of an account already linked has been handled.
C2_Witness ==
    /\ resp.handler = "callback"
    /\ resp.plan = "update"
    /\ resp.linkErr = OK
    /\ SessionIn(cookie[resp.client]).UserID # 0

\* C3: cross-provider linking. When a Google callback reaches CreateAuth
\* with email E while a user with email E holds a GitHub auth and no Google
\* auth, the callback succeeds, no user is inserted, the user then holds a
\* github and a google auth, and the session carries that user's id.
C3_CrossProviderLinking ==
    [][(CallbackLinked /\ resp'.provider = AuthSourceGoogle /\ resp'.auth.email # "") =>
        \A u \in FindUserByEmail(users, resp'.auth.email) :
            ( /\ \E a \in auths : a.userID = u.id /\ a.source = AuthSourceGitHub
              /\ \A a \in auths : a.userID = u.id => a.source # AuthSourceGoogle )
            => /\ resp'.status = 302
               /\ users' = users
               /\ \E a \in auths' : a.userID = u.id /\ a.source = AuthSourceGitHub
               /\ \E a \in auths' : a.userID = u.id /\ a.source = AuthSourceGoogle
               /\ SessionIn(cookie'[resp'.client]).UserID = u.id
      ]_vars

\* C4: provider-reuse rejection. When CreateAuth gets a (source, sourceID)
\* without an auth row and an email whose user already holds an auth of that
\* source, it fails with ECONFLICT and users and auths stay as they were.
C4_ProviderReuseRejected ==
    [][(CallbackLinked /\ resp'.auth.email # ""
          /\ FindAuthBySourceID(auths, resp'.auth.source, resp'.auth.sourceID) = {}) =>
        \A u \in FindUserByEmail(users, resp'.auth.email) :
            (\E a \in auths : a.userID = u.id /\ a.source = resp'.auth.source)
            => /\ resp'.linkErr = ECONFLICT
               /\ users' = users
               /\ auths' = auths
               /\ nextUserID' = nextUserID
      ]_vars

\* A second subject of a source the email's user already holds was refused.
C4_Witness ==
    /\ resp.handler = "callback"
    /\ resp.linkErr = ECONFLICT
    /\ resp.plan = "link"
    /\ \E a \in auths : a.source = resp.auth.source /\ a.sourceID # resp.auth.sourceID

\* C8: CSRF mismatch. A callback whose state differs from the State of the
\* client's session calls neither Exchange nor CreateAuth, answers with an
\* error, and leaves the session cookie and the store as they were.
C8_StateMismatchRejected ==
    [][(resp'.handler = "callback" /\ resp'.state # SessionIn(cookie[resp'.client]).State) =>
        /\ ~resp'.exchanged
        /\ ~resp'.linked
        /\ resp'.status # 302
        /\ cookie' = cookie
        /\ UNCHANGED storeVars
      ]_vars

\* A logged-in client, with a login pending, got a callback of another state.
C8_Witness ==
    /\ resp.handler = "callback"
    /\ resp.state # SessionIn(cookie[resp.client]).State
    /\ SessionIn(cookie[resp.client]).State # ""
    /\ SessionIn(cookie[resp.client]).UserID # 0
    /\ ~resp.exchanged

C10_LoginRewritesSession ==
    [][(CallbackLinked /\ resp'.linkErr = OK) =>
        LET c == resp'.client
            owners == {a.userID : a \in FindAuthBySourceID(auths', resp'.auth.source,
                                                           resp'.auth.sourceID)}
        IN  /\ owners # {}
            /\ \E u \in users' : owners = {u.id}
            /\ SessionIn(cookie'[c]).UserID \in owners
            /\ SessionIn(cookie'[c]).State = ""
            /\ SessionIn(cookie'[c]).RedirectURL = ""
            /\ resp'.status = 302
            /\ resp'.location =
                 (IF SessionIn(cookie[c]).RedirectURL = "" THEN "/" ELSE SessionIn(cookie[c]).RedirectURL)
      ]_vars

\* A login that was sent from a protected page went back to it.
C10_Witness ==
    /\ resp.handler = "callback"
    /\ resp.linkErr = OK
    /\ resp.location \in ProtectedPaths
    /\ SessionIn(cookie[resp.client]).UserID # 0

-----------------------------------------------------------------------------
(* Properties of the session cookie *)

\* C11: logout. Whatever session the request carried, handleLogout stores
\* the cookie of the zero Session: the next request with it has no user, and
\* no state minted so far matches it.
C11_LogoutResetsSession ==
    [][resp'.handler = "logout" =>
        LET c == resp'.client
        IN  /\ cookie'[c] = MarshalSession(EmptySession)
            /\ ServerSession(cookie'[c]) = [err |-> OK, session |-> EmptySession]
            /\ SessionIn(cookie'[c]).UserID = 0
            /\ \A n \in 1..nonceCtr : ~StateMatches(Nonce(n), SessionIn(cookie'[c]))
            /\ resp'.status = 302
      ]_vars

\* A user who had started another login has logged out.
C11_Witness ==
    /\ resp.handler = "logout"
    /\ resp.caller # 0
    /\ nonceCtr > 0
    /\ cookie[resp.client] = MarshalSession(EmptySession)

C13_LoginInitiationMintsState ==
    [][resp'.handler = "oauth" =>
        LET c      == resp'.client
            before == SessionIn(cookie[c])
            after  == SessionIn(cookie'[c])
        IN  /\ resp'.status = 302
            /\ resp'.location = resp'.provider
            /\ after.State = resp'.state
            /\ after.State # ""
            /\ after.State # before.State
            /\ after.State \notin {Nonce(n) : n \in 1..nonceCtr}
            /\ after.RedirectURL = before.RedirectURL
            /\ after.UserID = before.UserID
      ]_vars

\* A second login was initiated by a client sent away from a protected page.
C13_Witness ==
    /\ resp.handler = "oauth"
    /\ resp.state = Nonce(2)
    /\ SessionIn(cookie[resp.client]).RedirectURL # ""
    /\ SessionIn(cookie[resp.client]).State = Nonce(2)

\* C14: a request whose session cookie does not decode is handled as one
\* without cookie: no handler answers with the decode error.
C14_DecodeFailureIsAnonymous ==
    [][(/\ resp'.handler \in {"oauth", "callback", "logout", "requireAuth"}
        /\ ServerSession(cookie[resp'.client]).err # OK)
       => resp'.err = ""
      ]_vars

\* Session payloads: every user id, RedirectURL and state of the model.
SessionPayloads ==
    [UserID : 0..2, RedirectURL : {""} \cup {PathAndQuery(u) : u \in RequestURLs},
     State : RequestStates]

C16_NoForgedSession ==
    [][\A c \in Clients :
        LET old == ServerSession(cookie[c])
            new == ServerSession(cookie'[c])
        IN  /\ (cookie'[c] # cookie[c] /\ new.err = OK /\ new.session.UserID # 0) =>
                 \/ /\ resp'.handler = "callback"
                    /\ resp'.client = c
                    /\ resp'.linkErr = OK
                    /\ old.err = OK
                    /\ resp'.state = old.session.State
                    /\ \E a \in auths' :
                         /\ a.source = resp'.auth.source
                         /\ a.sourceID = resp'.auth.sourceID
                         /\ a.userID = new.session.UserID
                 \/ /\ resp'.handler \in {"oauth", "requireAuth"}
                    /\ resp'.client = c
                    /\ old.err = OK
                    /\ old.session.UserID = new.session.UserID
            /\ (resp'.handler = "client" /\ resp'.client = c /\ cookie'[c] # NoSessionCookie) =>
                 /\ new.err # OK
                 /\ new.session = EmptySession
      ]_vars

\* The client presents a cookie it made that names a user of the store, and
\* the server finds no user in it.
C16_Witness ==
    \E c \in Clients :
        /\ resp.handler = "client"
        /\ cookie[c] # NoSessionCookie
        /\ Len(cookie[c].value.data) = 3
        /\ \E u \in users : u.id = cookie[c].value.data[1]
        /\ ContextUserID(c) = 0

-----------------------------------------------------------------------------
(* Properties of the short links *)

\* C1: only the owner deletes. When DeleteShort runs for a stored key on
\* behalf of a user who is not the short's owner, it fails with
\* EUNAUTHORIZED and the table of shorts stays as it was.
C1_OnlyOwnerDeletes ==
    [][resp'.handler = "delete" =>
        \A i \in 1..Len(shorts) :
            (shorts[i].key = resp'.key /\ ~CanEditShort(shorts[i], resp'.caller))
            => /\ resp'.err = EUNAUTHORIZED
               /\ shorts' = shorts
      ]_vars

\* A short with this key is in the table.
KeyStored(key) == \E i \in 1..Len(shorts) : shorts[i].key = key

\* A step is a direct call of ShortService.CreateShort.
CreateShortCalled == resp'.handler = "CreateShort"

\* Target URLs Validate turns down: the empty one and those whose scheme is
\* neither http nor https.
InvalidTargets ==
    {URLString(u) : u \in {v \in URLs : v = EmptyURL \/ v.scheme \notin {"http", "https"}}}

\* C17: CreateShort by a logged-in user with a target URL that is empty or
\* has a scheme other than http and https fails with EINVALID and leaves the
\* table of shorts as it was.
C17_InvalidTargetRejected ==
    [][(CreateShortCalled /\ resp'.caller # 0 /\ resp'.url \in InvalidTargets) =>
         /\ resp'.err = EINVALID
         /\ shorts' = shorts
      ]_vars

\* A short with an ftp target was turned down while the table holds shorts.
C17_Witness ==
    /\ resp.handler = "CreateShort"
    /\ resp.caller # 0
    /\ resp.url = "ftp://x"
    /\ resp.err = EINVALID
    /\ Len(shorts) > 0

\* C18: CreateShort with no user in the context fails with EUNAUTHORIZED
\* whatever the target URL and the key, and leaves the table as it was.
C18_AnonymousCreateRejected ==
    [][(CreateShortCalled /\ resp'.caller = 0) =>
         /\ resp'.err = EUNAUTHORIZED
         /\ shorts' = shorts
      ]_vars

\* A call without user, with a valid target and a free key, was turned down.
C18_Witness ==
    /\ resp.handler = "CreateShort"
    /\ resp.caller = 0
    /\ resp.err = EUNAUTHORIZED
    /\ resp.url = "https://a"
    /\ resp.key # ""
    /\ ~KeyStored(resp.key)

\* C19: a create request whose key is stored already draws another key and
\* tries again: while some key is free a request with a valid target
\* succeeds and stores a short, and a conflict is answered only after
\* several attempts.
C19_RetriesOnCollision ==
    [][(resp'.handler = "create" /\ KeyStored(resp'.key)) =>
         /\ resp'.err = ECONFLICT => resp'.attempts > 1
         /\ (resp'.err # EINVALID /\ \E k \in Keys : ~KeyStored(k))
            => /\ resp'.err = OK
               /\ Len(shorts') = Len(shorts) + 1
      ]_vars

\* C20: CreateShort by a logged-in user, with a valid target and a key that
\* is stored already, fails with ECONFLICT and its message, and the table,
\* so the stored short with its url, owner and times, stays as it was.
C20_DuplicateKeyConflict ==
    [][(/\ CreateShortCalled
        /\ resp'.caller # 0
        /\ resp'.url \notin InvalidTargets
        /\ KeyStored(resp'.key)) =>
         /\ resp'.err = ECONFLICT
         /\ resp'.msg = "Short with the same key already exists."
         /\ shorts' = shorts
         /\ FindShortByKey(shorts', resp'.key) = FindShortByKey(shorts, resp'.key)
      ]_vars

\* The key of another user's short, with another target, was turned down.
C20_Witness ==
    /\ resp.handler = "CreateShort"
    /\ resp.err = ECONFLICT
    /\ LET found == FindShortByKey(shorts, resp.key)
       IN  /\ found.err = OK
           /\ found.short.ownerID # resp.caller
           /\ URLString(found.short.url) # resp.url
           /\ found.short.createdAt = 2

-----------------------------------------------------------------------------
(* Properties of the store under concurrent CreateAuth calls *)

\* C5: in every reachable state of the store no two auths have the same
\* (source, source_id) and no user has two auths of the same source,
\* whatever interleaving of CreateAuth transactions led there.
C5_IdentitiesUnique ==
    \A a, b \in auths :
        /\ (a.source = b.source /\ a.sourceID = b.sourceID) => a = b
        /\ (a.userID = b.userID /\ a.source = b.source) => a = b

\* A transaction was turned down with a conflict while the store holds the
\* auths of two accounts.
C5_Witness ==
    /\ Cardinality(auths) >= 2
    /\ \E p \in Procs : tx[p].pc = "done" /\ tx[p].status = ECONFLICT

\* The transaction of p ends in this step with an error.
TxFailsNow(p) == tx[p].pc # "done" /\ tx'[p].pc = "done" /\ tx'[p].status # OK

\* The transaction of p takes a step other than its commit.
TxStepsUncommitted(p) == tx'[p] # tx[p] /\ ~(tx'[p].pc = "done" /\ tx'[p].status = OK)

\* C6: CreateAuth is atomic. After every step each auth references a user
\* of the users table; a step of a transaction other than its commit, and
\* so a step in which the transaction fails (also after it inserted a user),
\* leaves users and auths as they were when the call began.
C6_ResolveAtomic ==
    [][/\ \A a \in auths' : \E u \in users' : u.id = a.userID
       /\ \A p \in Procs :
            (TxFailsNow(p) \/ TxStepsUncommitted(p)) => UNCHANGED <<users, auths>>
      ]_vars

\* A transaction failed after it had inserted a user, and that user is not
\* in the table.
C6_Witness ==
    \E p \in Procs :
        /\ tx[p].pc = "done"
        /\ tx[p].status \notin {OK, ""}
        /\ tx[p].newUser
        /\ \A u \in users : u.email # tx[p].auth.email \/ u.id # tx[p].userID

\* The last transactions of p and q ran at the same time for the same
\* account, which neither found in the store.
Raced(p, q) ==
    /\ p # q
    /\ tx[p].pc = "done" /\ tx[q].pc = "done"
    /\ tx[p].conc /\ tx[q].conc
    /\ SameAccount(tx[p].auth, tx[q].auth)
    /\ tx[p].plan \in {"link", "create"}
    /\ tx[q].plan \in {"link", "create"}

\* Neither was cancelled or turned down as invalid.
RanToTheEnd(p, q) == {tx[p].status, tx[q].status} \subseteq {OK, ECONFLICT}

\* The user with the email of auth a already has an auth of a's source for
\* another account.
ProviderHeld(a) ==
    /\ a.email # ""
    /\ \E u \in users, b \in auths :
         /\ u.email = a.email
         /\ b.userID = u.id
         /\ b.source = a.source
         /\ b.sourceID # a.sourceID

\* C7 as stated: of two CreateAuth transactions that ran concurrently to
\* their end for the same account not yet in the store, exactly one
\* committed and the other failed with a conflict.
C7_ExactlyOneCommits ==
    \A p, q \in Procs :
        (Raced(p, q) /\ RanToTheEnd(p, q))
        => \/ tx[p].status = OK /\ tx[q].status = ECONFLICT
           \/ tx[q].status = OK /\ tx[p].status = ECONFLICT

\* C7 (amended): of two CreateAuth transactions that ran concurrently for
\* the same account not yet in the store, at most one committed. When both
\* ran to their end and the user they resolve to held no auth of that source
\* for another account, exactly one committed and the other failed with a
\* conflict. The failing one changed nothing in the store. A later
\* CreateAuth for the account finds the winner's auth and returns the
\* winner's user id.
C7_AtMostOneCommits ==
    [][/\ \A p, q \in Procs :
            /\ Raced(p, q)' => ~(tx'[p].status = OK /\ tx'[q].status = OK)
            /\ (Raced(p, q)' /\ RanToTheEnd(p, q)'
                  /\ ~ProviderHeld(tx[p].auth)' /\ ~ProviderHeld(tx[q].auth)')
               => \/ tx'[p].status = OK /\ tx'[q].status = ECONFLICT
                  \/ tx'[q].status = OK /\ tx'[p].status = ECONFLICT
       /\ \A p \in Procs : TxFailsNow(p) => UNCHANGED storeVars
       /\ \A p, q \in Procs :
            (/\ p # q
             /\ tx'[p].pc = "done" /\ tx'[p].status = OK /\ tx'[p].plan # "update"
             /\ tx'[q].pc = "done" /\ tx'[q].status = OK /\ tx'[q].plan = "update"
             /\ SameAccount(tx'[p].auth, tx'[q].auth))
            => tx'[q].userID = tx'[p].userID
      ]_vars

\* The loser of a race called CreateAuth again and got the winner's user.
C7_Witness ==
    \E p, q \in Procs :
        /\ p # q
        /\ tx[p].pc = "done" /\ tx[p].status = OK /\ tx[p].plan = "create"
        /\ tx[q].pc = "done" /\ tx[q].status = OK /\ tx[q].plan = "update"
        /\ tx[q].prev = ECONFLICT
        /\ SameAccount(tx[p].auth, tx[q].auth)
        /\ tx[q].userID = tx[p].userID


-----------------------------------------------------------------------------
(* Properties of the ShortService reads and deletes, and of the schema *)

\* The row of the table with this key; the key is stored.
StoredRow(S, key) == S[CHOOSE i \in 1..Len(S) : S[i].key = key]

\* A step is a direct call of ShortService.FindShortByKey (DeleteUser is
\* the one step that leaves resp as the call before it set it).
FindShortByKeyCalled == resp'.handler = "FindShortByKey" /\ UNCHANGED users

C22_CountIsAllMatches ==
    [][resp'.handler \in {"FindShorts", "index"} =>
         resp'.n = Cardinality({i \in 1..Len(shorts) :
                                  /\ resp'.filter.key # Nil => shorts[i].key = resp'.filter.key
                                  /\ resp'.filter.url # Nil => shorts[i].url = resp'.filter.url})
      ]_vars

\* A step is a direct call of ShortService.DeleteShort.
DeleteShortCalled == resp'.handler = "DeleteShort" /\ UNCHANGED users

\* C23: DeleteShort of a stored key by its owner succeeds and removes that
\* row and no other, users and auths staying as they were; of a key that is
\* not stored it fails with ENOTFOUND and changes nothing; FindShortByKey of
\* a key that is not stored fails with ENOTFOUND; and a key that is not
\* stored becomes stored only by a successful CreateShort of that key.
C23_DeleteThenNotFound ==
    [][/\ (/\ DeleteShortCalled /\ KeyStored(resp'.key)
           /\ StoredRow(shorts, resp'.key).ownerID = resp'.caller) =>
             /\ resp'.err = OK
             /\ Len(shorts') = Len(shorts) - 1
             /\ \A i \in 1..Len(shorts') : shorts'[i].key # resp'.key
             /\ \A i \in 1..Len(shorts) :
                   shorts[i].key # resp'.key =>
                     \E j \in 1..Len(shorts') : shorts'[j] = shorts[i]
             /\ UNCHANGED storeVars
       /\ (DeleteShortCalled /\ ~KeyStored(resp'.key)) =>
             /\ resp'.err = ENOTFOUND
             /\ UNCHANGED <<shorts, storeVars>>
       /\ (FindShortByKeyCalled /\ ~KeyStored(resp'.key)) => resp'.err = ENOTFOUND
       /\ \A k \in Keys :
             (~KeyStored(k) /\ \E i \in 1..Len(shorts') : shorts'[i].key = k) =>
                (CreateShortCalled /\ UNCHANGED users /\ resp'.key = k /\ resp'.err = OK)
      ]_vars

\* User 1 deleted its short, and the short of user 2 is still stored.
C23_Witness ==
    /\ resp.handler = "DeleteShort"
    /\ resp.caller = 1
    /\ resp.err = OK
    /\ ~KeyStored(resp.key)
    /\ Len(shorts) = 1
    /\ shorts[1].ownerID = 2

\* C24: every stored short has a key no other stored short has, a target
\* whose scheme is http or https, and an owner id that is not 0 and is the
\* id of a user.
C24_StoredShortsWellFormed ==
    \A i \in 1..Len(shorts) :
       /\ \A j \in 1..Len(shorts) : shorts[j].key = shorts[i].key => j = i
       /\ shorts[i].url \in {"https://a", "http://b"}
       /\ shorts[i].ownerID # 0
       /\ \E u \in users : u.id = shorts[i].ownerID

\* User 1 is deleted and its session asks for another short, while user 2
\* holds one: the call was turned down.
C24_Witness ==
    /\ resp.handler = "CreateShort"
    /\ resp.caller = 1
    /\ resp.url = "https://a"
    /\ ~KeyStored(resp.key)
    /\ resp.err = EINTERNAL
    /\ ~\E u \in users : u.id = 1
    /\ Len(shorts) = 1

\* C25: the step that deletes a user removes that user, every auth of that
\* user and every short that user owns, and leaves the other users, auths
\* and shorts as they were.
C25_DeleteUserCascades ==
    [][\A id \in 1..2 :
         ((\E u \in users : u.id = id) /\ ~(\E u \in users' : u.id = id)) =>
            /\ users' = {u \in users : u.id # id}
            /\ auths' = {a \in auths : a.userID # id}
            /\ shorts' = SelectSeq(shorts, LAMBDA r : r.ownerID # id)
      ]_vars

\* User 1 was deleted right after it created a short: that short and its
\* auth are gone, the short and the auth of user 2 are there.
C25_Witness ==
    /\ resp.handler = "CreateShort"
    /\ resp.caller = 1
    /\ resp.err = OK
    /\ ~KeyStored(resp.key)
    /\ ~\E u \in users : u.id = 1
    /\ ~\E a \in auths : a.userID = 1
    /\ Len(shorts) = 1
    /\ shorts[1].ownerID = 2
    /\ \E a \in auths : a.userID = 2


-----------------------------------------------------------------------------
(* Properties of the key generator *)

\* The runes of an alphabet.
Symbols(arune) == {arune[i] : i \in 1..Len(arune)}

\* The bytes for which the loop writes this rune.
DrawsOf(arune, sym) == {b \in Bytes : arune[(b % Len(arune)) + 1] = sym}

\* The runes written so far are of the alphabet and no more than asked
\* for, and the string returned has as many runes as asked for.
KeyOfAlphabet ==
    /\ Len(resp.runes) <= resp.length
    /\ \A i \in 1..Len(resp.runes) : resp.runes[i] \in Symbols(resp.alphabet)
    /\ resp.handler = "generated" =>
          /\ Len(resp.out) = resp.length
          /\ resp.out = resp.runes

\* Every symbol of the alphabet is written for some byte, at whatever
\* position: the turn of the loop does not depend on the position.
EverySymbolCanOccur ==
    \A sym \in Symbols(resp.alphabet) :
       \E b \in Bytes : RuneAt(resp.alphabet, b) = sym

\* C26 as stated: SecureStringFromAlphabet(n, alphabet) with n >= 1 and an
\* alphabet that is not empty returns n symbols of the alphabet, and every
\* symbol of the alphabet can occur at every position.
C26_AnyAlphabet ==
    /\ KeyOfAlphabet
    /\ resp.handler = "generated" => EverySymbolCanOccur

\* C26, amended: SecureStringFromAlphabet(n, alphabet) with n >= 1 and an
\* alphabet that is not empty returns n symbols of the alphabet, and every
\* symbol can occur at every position when the alphabet has no more symbols
\* than a byte has values.
C26_AlphabetWithinByteRange ==
    /\ KeyOfAlphabet
    /\ (resp.handler = "generated" /\ Len(resp.alphabet) <= ByteRange) =>
          EverySymbolCanOccur

\* A key of MaxKeyLength symbols was returned that ends with the last
\* symbol of its alphabet and begins with another.
C26_Witness ==
    /\ resp.handler = "generated"
    /\ resp.length = MaxKeyLength
    /\ resp.out[resp.length] = resp.alphabet[Len(resp.alphabet)]
    /\ resp.out[1] # resp.out[resp.length]

\* C27: for an alphabet of at most 64 symbols every symbol is selected by
\* the same number of byte values, also when the number of symbols does not
\* divide 256.
C27_NoModuloBias ==
    (resp.handler = "generated" /\ Len(resp.alphabet) <= 64) =>
       \A s1, s2 \in Symbols(resp.alphabet) :
          Cardinality(DrawsOf(resp.alphabet, s1)) = Cardinality(DrawsOf(resp.alphabet, s2))


-----------------------------------------------------------------------------
(* Properties of the errors answered at the edge *)

\* The status the spec gives for each error kind.
StatusOfKind(kind) ==
    CASE kind = "conflict"        -> 409
      [] kind = "invalid"         -> 400
      [] kind = "not_found"       -> 404
      [] kind = "not_implemented" -> 501
      [] kind = "unauthorized"    -> 401
      [] kind = "internal"        -> 500
      [] OTHER                    -> 500

\* C28: Error answers a conflict with 409, an invalid with 400, a not found
\* with 404, a not implemented with 501, an unauthorized with 401, an
\* internal with 500, and an error of any other code with 500.
C28_StatusOfEachKind ==
    resp.handler = "Error" => resp.status = StatusOfKind(resp.err)

\* An error whose code the table does not hold was answered with 500, and
\* not logged.
C28_Witness ==
    /\ resp.handler = "Error"
    /\ resp.err = "teapot"
    /\ resp.status = 500
    /\ ~resp.logged

\* C29: the kind of a failure reaches the response unchanged: a callback
\* whose CreateAuth fails with conflict or invalid, and a short-link request
\* whose ShortService call fails with not found, unauthorized, invalid or
\* conflict, is answered with the status of that kind.
C29_KindReachesEdge ==
    /\ (resp.handler = "callback" /\ resp.linkErr \in {ECONFLICT, EINVALID}) =>
          resp.status = StatusOfKind(resp.linkErr)
    /\ (/\ resp.handler \in {"create", "delete", "resolve"}
        /\ resp.err \in {ENOTFOUND, EUNAUTHORIZED, EINVALID, ECONFLICT}) =>
          resp.status = StatusOfKind(resp.err)

\* C30: a callback calls CreateAuth only when the token exchange and the
\* profile fetch have both succeeded; when either fails the request is
\* answered with 500 after that one attempt, CreateAuth is not called, and
\* users, auths, the transactions and every client's cookie stay as they
\* were.
C30_LinkOnlyAfterProvider ==
    [][resp'.handler = "callback" =>
         /\ resp'.linked => (resp'.conv = "ok" /\ resp'.exchanged /\ resp'.fetched)
         /\ resp'.conv \in {"exchange", "profile"} =>
               /\ ~resp'.linked
               /\ resp'.exchanged
               /\ resp'.fetched = (resp'.conv = "profile")
               /\ resp'.status = 500
               /\ UNCHANGED <<storeVars, txVars, cookie>>
      ]_vars

\* The profile fetch failed for a client whose session holds the state of
\* a login it began, while the store holds a user.
C30_Witness ==
    /\ resp.handler = "callback"
    /\ resp.conv = "profile"
    /\ ~resp.linked
    /\ resp.status = 500
    /\ users # {}
    /\ SessionIn(cookie[resp.client]).State = resp.state

(* Properties of the routes behind requireAuth *)

\* The handlers registerShortPrivateRoutes puts behind requireAuth.
PrivateHandlers == {"new", "create", "delete", "index"}

\* A step is a request (DeleteUser is the one step that is none).
RequestServed == resp'.client \in ShortClients /\ UNCHANGED users

\* C31: the handler of a route behind requireAuth (form, create, delete,
\* list) runs only for a request whose context holds a user, and works for
\* that user; a request to such a route without a user in its context is
\* answered by requireAuth with a redirect to /login, and users, auths,
\* shorts and the transactions stay as they were.
C31_PrivateRoutesNeedUser ==
    [][RequestServed =>
         /\ resp'.handler \in PrivateHandlers =>
               /\ ContextUserID(resp'.client) # 0
               /\ resp'.caller = ContextUserID(resp'.client)
         /\ ContextUserID(resp'.client) = 0 =>
               /\ resp'.handler = "requireAuth"
               /\ resp'.caller = 0
               /\ resp'.status = 302
               /\ resp'.location = "/login"
               /\ UNCHANGED <<storeVars, shorts, txVars>>
      ]_vars

\* The client without a session was sent to /login while the table holds
\* a short.
C31_Witness ==
    /\ resp.handler = "requireAuth"
    /\ resp.client = "c0"
    /\ resp.location = "/login"
    /\ shorts # <<>>

\* The session of the client names a user that is not stored.
StaleSession(c) ==
    /\ SessionIn(cookie[c]).UserID # 0
    /\ \A u \in users : u.id # SessionIn(cookie[c]).UserID

\* C32: a request whose session token is valid and names a user that is no
\* longer stored is served as an anonymous one: no handler behind
\* requireAuth runs and none works for the session's user, the request is
\* redirected to /login, and no short is created or deleted.
C32_DeletedUserIsAnonymous ==
    [][(RequestServed /\ StaleSession(resp'.client)) =>
         /\ ServerSession(cookie[resp'.client]).err = OK
         /\ resp'.handler \notin PrivateHandlers
         /\ resp'.caller = 0
         /\ resp'.handler = "requireAuth"
         /\ resp'.location = "/login"
         /\ UNCHANGED shorts
      ]_vars

\* Client c1, whose session names user 1, was sent to /login after user 1
\* was deleted; its session still names user 1.
C32_Witness ==
    /\ resp.handler = "requireAuth"
    /\ resp.client = "c1"
    /\ SessionIn(cookie["c1"]).UserID = 1
    /\ \A u \in users : u.id # 1

\* C39: a create request that succeeds appends one row whose key is the
\* one the generator drew and whose owner is the user of the request's
\* context, whatever key and owner id the client sent with the request.
C39_KeyAndOwnerFromServer ==
    [][(RequestServed /\ resp'.handler = "create" /\ resp'.err = OK) =>
         /\ Len(shorts') = Len(shorts) + 1
         /\ SubSeq(shorts', 1, Len(shorts)) = shorts
         /\ shorts'[Len(shorts')].key = resp'.key
         /\ shorts'[Len(shorts')].key \in Keys
         /\ shorts'[Len(shorts')].ownerID = SessionIn(cookie[resp'.client]).UserID
      ]_vars

\* User 1 created a short with a JSON body that asked for the key "vip"
\* and the owner 2: the row holds the drawn key and owner 1.
C39_Witness ==
    /\ resp.handler = "create"
    /\ resp.err = OK
    /\ resp.body = [key |-> "vip", ownerID |-> 2]
    /\ resp.caller = 1
    /\ shorts # <<>>
    /\ shorts[Len(shorts)].key = resp.key
    /\ shorts[Len(shorts)].ownerID = 1

(* Properties of a login without a subject id *)

\* C33: CreateAuth called with an auth whose subject id is empty fails
\* with EINVALID and leaves users and auths as they were; a callback whose
\* profile fetch brings no subject id does not call CreateAuth and leaves
\* users, auths and every client's session cookie as they were.
C33_NoSubjectNoLogin ==
    [][/\ (resp'.handler = "CreateAuth" /\ resp'.auth.sourceID = "") =>
             /\ resp'.linkErr = EINVALID
             /\ UNCHANGED storeVars
       /\ (resp'.handler = "callback" /\ resp'.conv = "profile") =>
             /\ ~resp'.linked
             /\ resp'.auth.sourceID = ""
             /\ resp'.status = 500
             /\ UNCHANGED <<storeVars, cookie>>
      ]_vars

\* CreateAuth was called without a subject id and with the email of a
\* stored user, and failed; no auth without a subject id is stored.
C33_Witness ==
    /\ resp.handler = "CreateAuth"
    /\ resp.auth.sourceID = ""
    /\ resp.plan = "link"
    /\ resp.linkErr = EINVALID
    /\ \A a \in auths : a.sourceID # ""

(* Properties of CreateShort and the owner it attaches *)

\* C34: a CreateShort that returns no error has committed one row with the
\* caller as owner and equal, non-zero times, and the caller's short holds
\* the owner's users row; a CreateShort whose read of the owner fails
\* returns an error and leaves the table as it was.
C34_CreateAttachesOwnerOrFails ==
    [][resp'.handler = "CreateShort" =>
         /\ resp'.err = OK =>
               /\ Len(shorts') = Len(shorts) + 1
               /\ shorts'[Len(shorts')].ownerID = resp'.caller
               /\ resp'.short.createdAt = resp'.short.updatedAt
               /\ resp'.short.createdAt # 0
               /\ resp'.short.ownerID = resp'.caller
               /\ resp'.short.owner \in users
               /\ resp'.short.owner.id = resp'.caller
         /\ (resp'.readErr \notin {OK, ""} /\ resp'.caller # 0
             /\ resp'.url \notin InvalidTargets /\ ~KeyStored(resp'.key)) =>
               /\ resp'.err # OK
               /\ UNCHANGED shorts
      ]_vars

(* Properties of the order of a listing *)

\* The short a caller holds, without the owner attached to it.
Unattached(short) ==
    [key |-> short.key, url |-> short.url, ownerID |-> short.ownerID,
     createdAt |-> short.createdAt, updatedAt |-> short.updatedAt]

\* What FindShorts returns for the empty filter.
ListAll(S) == FindShorts(S, NoFilter).shorts

C36_FlashDeliveredOnce ==
    [][resp'.client \in ShortClients =>
         /\ resp'.flash = IF flash[resp'.client] = NoCookie THEN "" ELSE flash[resp'.client]
         /\ IF resp'.handler = "delete" /\ resp'.err = OK
              THEN flash'[resp'.client] = "Successfully deleted short " \o resp'.key \o "."
              ELSE /\ flash'[resp'.client] \in {NoCookie, ""}
                   /\ flash'[resp'.client] = NoCookie <=> flash[resp'.client] = NoCookie
         /\ \A d \in ShortClients \ {resp'.client} : flash'[d] = flash[d]
      ]_vars

\* A delete request was handed the message of the delete before it and
\* left its own message in the cookie.
C36_Witness ==
    /\ resp.handler = "delete"
    /\ resp.err = OK
    /\ resp.key = "k1"
    /\ resp.flash = "Successfully deleted short k2."
    /\ flash[resp.client] = "Successfully deleted short k1."

(* Properties of the state a callback must bring *)

\* C37: a callback that arrives while the client's session holds no
\* pending state (no cookie, the zero session a logout leaves, a state a
\* login has consumed) is rejected whatever its state parameter is, the
\* empty one included: Exchange and CreateAuth are not called, the answer
\* is an error, and the session cookie and the store stay as they were.
C37_CallbackNeedsPendingState ==
    [][(/\ resp'.handler = "callback"
        /\ ServerSession(cookie[resp'.client]).err = OK
        /\ SessionIn(cookie[resp'.client]).State = "") =>
          /\ ~resp'.exchanged
          /\ ~resp'.linked
          /\ resp'.status # 302
          /\ cookie' = cookie
          /\ UNCHANGED storeVars
      ]_vars

LocalRedirects ==
    {RequestURLString([scheme |-> "", host |-> "", path |-> u.path, query |-> u.query]) :
        u \in RequestURLs}

\* The strings of the requests' URLs that name a scheme or a host.
RemoteRedirects ==
    {RequestURLString(u) : u \in {v \in RequestURLs : v.scheme # "" \/ v.host # ""}}

====
